---- MODULE Spec2Model ----
(***************************************************************************)
(* rand-bits: random unsigned integers with a fixed number of set bits.    *)
(*                                                                         *)
(* The model follows src/src/lib.rs.  A value of an integer type of W bits *)
(* is the sequence of its W/8 bytes, most significant byte first, so that  *)
(* the 128-bit values stay representable; casts, shifts, ORs and XORs act  *)
(* on that representation the way the Rust operators act on the integers.  *)
(* The recursion of Standard.sample is an explicit call stack, one frame   *)
(* per active sample call, and every rng.gen_range call is one             *)
(* nondeterministic draw, recorded in rng_log.  The rng the caller passes  *)
(* is either arbitrary (every outcome of every range can come) or         *)
(* scripted for one value of the requested weight (each draw gives the     *)
(* outcome that leads to that value), which makes "this value can be       *)
(* returned" a property of the states.                                     *)
(***************************************************************************)
EXTENDS Integers, Sequences, FiniteSets

VARIABLES
    status,     \* "idle" | "running" | "returned" | "panicked"
    width,      \* the integer type T of the gen_bits::<T> call: its T::BITS
    bits,       \* the `bits` argument of the gen_bits call
    stack,      \* the active sample calls, the outermost first
    ret,        \* the value the sample call that returned last gave back
    rng_log,    \* the gen_range calls made so far: range and outcome
    panic_msg,  \* the panic message, "" while there is none
    target      \* the value a scripted rng steers to; <<>> for an arbitrary rng

vars == <<status, width, bits, stack, ret, rng_log, panic_msg, target>>

----------------------------------------------------------------------------
(* Bounds of the model                                                     *)

\* gen_bits::<u32 | u64 | u128> is called with bits within MaxWideBits of 0
\* or of T::BITS; u8 and u16 are called with every bits in 0..=T::BITS.
MaxWideBits == 1

\* Requests beyond the contract: bits up to T::BITS + MaxExcess.
MaxExcess == 2

----------------------------------------------------------------------------
(* Integer types                                                           *)

U8Bits == 8

Widths == {8, 16, 32, 64, 128}

WideWidths == Widths \ {U8Bits}

\* The type the sample of width w calls twice: u8 for u16, ..., u64 for u128.
HalfBits(w) == w \div 2

NBytes(w) == w \div U8Bits

\* T::MIN and T::MAX of the unsigned type of w bits.
TMin(w) == [i \in 1..NBytes(w) |-> 0]

\* TMax with a slip: the MAX of the signed type of w bits.
TMaxSigned(w) == [i \in 1..NBytes(w) |-> IF i = 1 THEN 127 ELSE 255]

TMax(w) == [i \in 1..NBytes(w) |-> 255]

\* `x as T`, T of w bits at least as wide as x: zero extension.
AsWidth(x, w) ==
    [i \in 1..NBytes(w) |->
        IF i <= NBytes(w) - Len(x) THEN 0 ELSE x[i - (NBytes(w) - Len(x))]]

\* Shl with a slip: no shift at all.
ShlNone(value, n) == value

\* `value <<= n` for n a multiple of 8 below the width of value: the bits
\* shifted out at the top are lost, zeros come in at the bottom.
Shl(value, n) ==
    [i \in 1..Len(value) |->
        IF i + NBytes(n) <= Len(value) THEN value[i + NBytes(n)] ELSE 0]

RECURSIVE ByteOr(_, _)
ByteOr(a, b) ==
    IF a = 0 /\ b = 0 THEN 0
    ELSE (IF a % 2 = 1 \/ b % 2 = 1 THEN 1 ELSE 0)
         + 2 * ByteOr(a \div 2, b \div 2)

RECURSIVE ByteXor(_, _)
ByteXor(a, b) ==
    IF a = 0 /\ b = 0 THEN 0
    ELSE (IF a % 2 # b % 2 THEN 1 ELSE 0) + 2 * ByteXor(a \div 2, b \div 2)

\* `a | b` on two values of the same type.
BitOr(a, b) == [i \in 1..Len(a) |-> ByteOr(a[i], b[i])]

\* `a ^ 0xFF` on a u8.
XorFF(a) == <<ByteXor(a[1], 255)>>

\* u8::count_ones.
RECURSIVE ByteCountOnes(_)
ByteCountOnes(b) == IF b = 0 THEN 0 ELSE (b % 2) + ByteCountOnes(b \div 2)

\* T::count_ones.
RECURSIVE CountOnes(_)
CountOnes(v) ==
    IF Len(v) = 0 THEN 0 ELSE ByteCountOnes(Head(v)) + CountOnes(Tail(v))

----------------------------------------------------------------------------
(* The byte table                                                          *)

\* MAPPING_1 with a slip: the last entry repeats the one before it.
MAPPING_1_Repeated == <<1, 2, 4, 8, 16, 32, 64, 64>>

\* MAPPING_1 with a slip: the last entry is missing.
MAPPING_1_Short == <<1, 2, 4, 8, 16, 32, 64>>

MAPPING_1 == <<1, 2, 4, 8, 16, 32, 64, 128>>

MAPPING_2 ==
    <<3, 5, 6, 9, 10, 12, 17, 18, 20, 24, 33, 34, 36, 40, 48, 65, 66, 68, 72,
      80, 96, 129, 130, 132, 136, 144, 160, 192>>

MAPPING_3 ==
    <<7, 11, 13, 14, 19, 21, 22, 25, 26, 28, 35, 37, 38, 41, 42, 44, 49, 50,
      52, 56, 67, 69, 70, 73, 74, 76, 81, 82, 84, 88, 97, 98, 100, 104, 112,
      131, 133, 134, 137, 138, 140, 145, 146, 148, 152, 161, 162, 164, 168,
      176, 193, 194, 196, 200, 208, 224>>

MAPPING_4 ==
    <<15, 23, 27, 29, 30, 39, 43, 45, 46, 51, 53, 54, 57, 58, 60, 71, 75, 77,
      78, 83, 85, 86, 89, 90, 92, 99, 101, 102, 105, 106, 108, 113, 114, 116,
      120, 135, 139, 141, 142, 147, 149, 150, 153, 154, 156, 163, 165, 166,
      169, 170, 172, 177, 178, 180, 184, 195, 197, 198, 201, 202, 204, 209,
      210, 212, 216, 225, 226, 228, 232, 240>>

\* The map from the number of set bits to the bytes that have it.
MAPPING ==
    [k \in 1..4 |->
        CASE k = 1 -> MAPPING_1
          [] k = 2 -> MAPPING_2
          [] k = 3 -> MAPPING_3
          [] k = 4 -> MAPPING_4]

----------------------------------------------------------------------------
(* The match arms of sample                                                *)

\* `0 => T::MIN`
IsMin(w, b) == b = 0

\* IsMax with a slip: every bits from T::BITS on saturates to T::MAX.
IsMaxSaturating(w, b) == b # 0 /\ b >= w

\* `T::BITS => T::MAX`, tried after the arm for 0
IsMax(w, b) == b # 0 /\ b = w

\* `1..=4` of the u8 sample
IsLookup(w, b) == w = U8Bits /\ b \in 1..4

\* `5..=7` of the u8 sample
IsComplement(w, b) == w = U8Bits /\ b \in 5..7

\* `bits if (1..T::BITS).contains(&bits)` of the wider samples
IsSplit(w, b) == w \in WideWidths /\ 1 <= b /\ b < w

\* `_ => panic!(...)`
IsOutOfRange(w, b) ==
    ~(IsMin(w, b) \/ IsMax(w, b) \/ IsLookup(w, b) \/ IsComplement(w, b)
      \/ IsSplit(w, b))

\* MinHighBits with a slip: T::BITS subtracted where Half::BITS should be.
MinHighBitsFull(w, b) == IF b >= w THEN b - w ELSE 0

\* `bits.checked_sub(Half::BITS).unwrap_or_default()`
MinHighBits(w, b) == IF b >= HalfBits(w) THEN b - HalfBits(w) ELSE 0

\* MaxHighBits with a slip: the high half may get every bit.
MaxHighBitsUncapped(w, b) == b

\* `min(bits, Half::BITS)`
MaxHighBits(w, b) == IF b <= HalfBits(w) THEN b ELSE HalfBits(w)

\* ComplementBits with slips: one bit too few, and no complement.
ComplementBitsOffByOne(b) == U8Bits - b - 1

ComplementBitsSame(b) == b

\* `u8::BITS - bits` of the 5..=7 arm
ComplementBits(b) == U8Bits - b

----------------------------------------------------------------------------
(* The call stack                                                          *)

\* A sample call of the impl for width w with argument b, about to match.
Frame(w, b) ==
    [w |-> w, bits |-> b, pc |-> "match", high_bits |-> 0, low_bits |-> 0,
     value |-> <<>>]

Top == stack[Len(stack)]

Running == status = "running" /\ Len(stack) > 0

\* The top call comes back with v, to its caller or to gen_bits.
Return(v) ==
    /\ stack' = SubSeq(stack, 1, Len(stack) - 1)
    /\ ret' = v
    /\ status' = IF Len(stack) = 1 THEN "returned" ELSE "running"

\* The top call moves on to pc and calls the sample of width w with b.
Call(top, w, b) ==
    stack' = Append([stack EXCEPT ![Len(stack)] = top], Frame(w, b))

Panic(msg) ==
    /\ status' = "panicked"
    /\ panic_msg' = msg
    /\ UNCHANGED <<stack, ret>>

----------------------------------------------------------------------------
(* The rng                                                                 *)

NoTarget == <<>>

\* The part of target the call at depth i of the stack has to produce: the
\* high or the low half of what its caller has to produce, or its
\* complement under the 5..=7 arm.
RECURSIVE GoalAt(_)
GoalAt(i) ==
    IF i = 1 THEN target
    ELSE LET g == GoalAt(i - 1)
             c == stack[i - 1]
             h == Len(g) \div 2
         IN  IF c.w = U8Bits THEN XorFF(g)
             ELSE IF c.pc = "high" THEN SubSeq(g, 1, h)
             ELSE SubSeq(g, h + 1, Len(g))

Goal == GoalAt(Len(stack))

\* rng.gen_range: an arbitrary rng gives any outcome of the range; a
\* scripted one the outcome that leads to target.
RngGives(x, scripted) == target = NoTarget \/ x = scripted

----------------------------------------------------------------------------
(* The requests                                                            *)

\* The bytes with k bits set.
BytesOfWeight(k) == {b \in 0..255 : ByteCountOnes(b) = k}

\* The values of n bytes with k bits set.
RECURSIVE ValuesOfWeight(_, _)
ValuesOfWeight(n, k) ==
    IF n = 1 THEN {<<b>> : b \in BytesOfWeight(k)}
    ELSE LET m == n \div 2
             lo == IF k >= m * U8Bits THEN k - m * U8Bits ELSE 0
             hi == IF k <= m * U8Bits THEN k ELSE m * U8Bits
         IN  UNION {{a \o b : a \in ValuesOfWeight(m, j),
                              b \in ValuesOfWeight(m, k - j)} : j \in lo..hi}

Requested(w, b) ==
    /\ b <= w + MaxExcess
    /\ \/ w \in {8, 16}
       \/ b <= MaxWideBits
       \/ b >= w - MaxWideBits

\* What a scripted rng may be steering to: any value of the type with the
\* requested number of bits set.
Targets(w, b) ==
    {NoTarget} \cup (IF b <= w THEN ValuesOfWeight(NBytes(w), b) ELSE {})

----------------------------------------------------------------------------
(* The operations                                                          *)

Init ==
    /\ status = "idle"
    /\ width = 0
    /\ bits = 0
    /\ stack = <<>>
    /\ ret = <<>>
    /\ rng_log = <<>>
    /\ panic_msg = ""
    /\ target = NoTarget

\* RngBits::gen_bits::<T>(bits): Standard.sample(self, bits).
GenBits ==
    /\ status = "idle"
    /\ \E w \in Widths, b \in 0..(128 + MaxExcess) :
          /\ Requested(w, b)
          /\ \E t \in Targets(w, b) :
                /\ status' = "running"
                /\ width' = w
                /\ bits' = b
                /\ target' = t
                /\ stack' = <<Frame(w, b)>>
    /\ UNCHANGED <<ret, rng_log, panic_msg>>

\* `0 => T::MIN` of every impl.
SampleMin ==
    /\ Running
    /\ Top.pc = "match"
    /\ IsMin(Top.w, Top.bits)
    /\ Return(TMin(Top.w))
    /\ UNCHANGED <<width, bits, rng_log, panic_msg, target>>

\* `T::BITS => T::MAX` of every impl.
SampleMax ==
    /\ Running
    /\ Top.pc = "match"
    /\ IsMax(Top.w, Top.bits)
    /\ Return(TMax(Top.w))
    /\ UNCHANGED <<width, bits, rng_log, panic_msg, target>>

\* The arm 1..=4 of the u8 impl with the key in MAPPING and a table that is
\* not empty: one index draw, and the entry at the index.
Sample8Lookup ==
    /\ Running
    /\ Top.pc = "match"
    /\ IsLookup(Top.w, Top.bits)
    /\ Top.bits \in DOMAIN MAPPING
    /\ LET values == MAPPING[Top.bits]
           scripted == IF target = NoTarget THEN <<>> ELSE Goal
       IN  \E index \in 0..(Len(values) - 1) :
              /\ RngGives(<<values[index + 1]>>, scripted)
              /\ rng_log' = Append(rng_log,
                                   [lo |-> 0, hi |-> Len(values) - 1,
                                    x |-> index])
              /\ Return(<<values[index + 1]>>)
    /\ UNCHANGED <<width, bits, panic_msg, target>>

\* The arm 5..=7 of the u8 impl: the nested call.
Sample8Complement ==
    /\ Running
    /\ Top.pc = "match"
    /\ IsComplement(Top.w, Top.bits)
    /\ Call([Top EXCEPT !.pc = "xor"], U8Bits, ComplementBits(Top.bits))
    /\ UNCHANGED <<status, width, bits, ret, rng_log, panic_msg, target>>

\* The arm 5..=7 of the u8 impl: `^ 0xFF` on what the nested call gave.
Sample8Xor ==
    /\ Running
    /\ Top.pc = "xor"
    /\ Return(XorFF(ret))
    /\ UNCHANGED <<width, bits, rng_log, panic_msg, target>>

\* The split arm of the impl for w: the draw of high_bits, low_bits, and the
\* call for the high half.  `bits - high_bits` on u32 panics in a debug
\* build when it underflows (a release build wraps it to a number above
\* Half::BITS, which the nested call then refuses); FeasibleSplit shows that
\* high_bits never exceeds bits, so neither happens.
SampleSplit(w) ==
    /\ Running
    /\ Top.w = w
    /\ Top.pc = "match"
    /\ IsSplit(w, Top.bits)
    /\ LET min_high_bits == MinHighBits(w, Top.bits)
           max_high_bits == MaxHighBits(w, Top.bits)
           scripted == IF target = NoTarget THEN 0
                       ELSE CountOnes(SubSeq(Goal, 1, Len(Goal) \div 2))
       IN  \E high_bits \in min_high_bits..max_high_bits :
              /\ RngGives(high_bits, scripted)
              /\ rng_log' = Append(rng_log,
                                   [lo |-> min_high_bits,
                                    hi |-> max_high_bits, x |-> high_bits])
              /\ IF high_bits > Top.bits
                 THEN Panic("attempt to subtract with overflow")
                 ELSE /\ Call([Top EXCEPT !.pc = "high",
                                          !.high_bits = high_bits,
                                          !.low_bits = Top.bits - high_bits],
                              HalfBits(w), high_bits)
                      /\ UNCHANGED <<status, ret, panic_msg>>
    /\ UNCHANGED <<width, bits, target>>

\* The split arm, the high half back: the cast, the shift, and the call for
\* the low half.
SampleHigh(w) ==
    /\ Running
    /\ Top.w = w
    /\ Top.pc = "high"
    /\ Call([Top EXCEPT !.pc = "low",
                        !.value = Shl(AsWidth(ret, w), HalfBits(w))],
            HalfBits(w), Top.low_bits)
    /\ UNCHANGED <<status, width, bits, ret, rng_log, panic_msg, target>>

\* The split arm, the low half back: the OR, and the value.
SampleLow(w) ==
    /\ Running
    /\ Top.w = w
    /\ Top.pc = "low"
    /\ Return(BitOr(Top.value, AsWidth(ret, w)))
    /\ UNCHANGED <<width, bits, rng_log, panic_msg, target>>

\* What stops a sample call at its match: no arm but `_`, a key MAPPING
\* does not have, a gen_range over an empty range, or a scripted rng asked
\* for a range that does not hold the outcome of its script.
PanicMessage(w, b) ==
    IF IsOutOfRange(w, b) THEN "bits count out of range"
    ELSE IF IsLookup(w, b) /\ b \notin DOMAIN MAPPING
    THEN "bits count out of range"
    ELSE IF IsLookup(w, b) /\ Len(MAPPING[b]) = 0
    THEN "cannot sample empty range"
    ELSE IF IsSplit(w, b) /\ MinHighBits(w, b) > MaxHighBits(w, b)
    THEN "cannot sample empty range"
    ELSE IF /\ target # NoTarget
            /\ IsLookup(w, b)
            /\ \A i \in 1..Len(MAPPING[b]) : <<MAPPING[b][i]>> # Goal
    THEN "scripted outcome out of range"
    ELSE IF /\ target # NoTarget
            /\ IsSplit(w, b)
            /\ CountOnes(SubSeq(Goal, 1, Len(Goal) \div 2))
                  \notin MinHighBits(w, b)..MaxHighBits(w, b)
    THEN "scripted outcome out of range"
    ELSE ""

SamplePanic ==
    /\ Running
    /\ Top.pc = "match"
    /\ PanicMessage(Top.w, Top.bits) # ""
    /\ Panic(PanicMessage(Top.w, Top.bits))
    /\ UNCHANGED <<width, bits, rng_log, target>>

Next ==
    \/ GenBits
    \/ SampleMin
    \/ SampleMax
    \/ Sample8Lookup
    \/ Sample8Complement
    \/ Sample8Xor
    \/ \E w \in WideWidths : SampleSplit(w)
    \/ \E w \in WideWidths : SampleHigh(w)
    \/ \E w \in WideWidths : SampleLow(w)
    \/ SamplePanic

Spec == Init /\ [][Next]_vars

----------------------------------------------------------------------------
(* Properties                                                              *)

Returned == status = "returned"

Panicked == status = "panicked"

ValidRequest == status # "idle" /\ bits <= width

AnyRng == target = NoTarget

\* The number of sample calls below the one gen_bits made.
NestedCalls == Len(stack) - 1

RECURSIVE Binom(_, _)
Binom(n, k) == IF k = 0 THEN 1 ELSE (Binom(n, k - 1) * (n - k + 1)) \div k

\* The number of values of n bits with k bits set.
Choose(n, k) == Binom(n, IF k <= n - k THEN k ELSE n - k)

\* The product of the sizes of the ranges drawn from.
RECURSIVE RangeProduct(_)
RangeProduct(log) ==
    IF Len(log) = 0 THEN 1
    ELSE (Head(log).hi - Head(log).lo + 1) * RangeProduct(Tail(log))

AllBytes(v, b) == \A i \in 1..Len(v) : v[i] = b

\* C1: a gen_bits::<T>(bits) call with bits <= T::BITS that returns, returns
\* a value of T with exactly bits bits set, whatever the draws were.
WeightInvariant ==
    Returned => Len(ret) * 8 = width /\ CountOnes(ret) = bits

WeightWitness ==
    /\ Returned /\ AnyRng
    /\ width = 128 /\ bits = 127
    /\ Len(rng_log) > 4
    /\ CountOnes(ret) = 127

\* C3: gen_bits::<T>(0) returns 0 and gen_bits::<T>(T::BITS) returns the
\* value with all T::BITS bits set, and neither asks the rng for anything.
BoundaryValues ==
    Returned =>
        /\ bits = 0 => Len(ret) * 8 = width /\ AllBytes(ret, 0)
                       /\ rng_log = <<>>
        /\ bits = width => Len(ret) * 8 = width /\ AllBytes(ret, 255)
                           /\ rng_log = <<>>

BoundaryWitness ==
    Returned /\ width = 128 /\ bits = 128 /\ Len(ret) = 16 /\ AllBytes(ret, 255)

\* C4: a gen_bits::<T>(bits) call with bits > T::BITS never returns a value:
\* the call gen_bits made stops at its match, before any draw or nested
\* call, with the panic "bits count out of range".
ContractViolation ==
    (status # "idle" /\ bits > width) =>
        /\ ~Returned
        /\ rng_log = <<>>
        /\ NestedCalls = 0
        /\ status = "running" => Top.pc = "match" /\ ENABLED SamplePanic
        /\ Panicked => panic_msg = "bits count out of range"

ContractViolationWitness ==
    Panicked /\ width = 16 /\ bits = 17
    /\ panic_msg = "bits count out of range"

\* C7: under a valid request every split range is the non-empty range
\* [max(0, k - W/2), min(k, W/2)]; the drawn h and k - h both lie in
\* [0, W/2]; every nested call gets a popcount within its width; and
\* nothing panics.
FeasibleSplit ==
    ValidRequest =>
        /\ ~Panicked
        /\ \A i \in 1..Len(stack) :
              LET f == stack[i]
                  half == f.w \div 2
              IN  /\ f.bits <= f.w
                  /\ f.pc \in {"high", "low"} =>
                        /\ f.high_bits <= half
                        /\ f.high_bits <= f.bits
                        /\ f.low_bits = f.bits - f.high_bits
                        /\ f.low_bits <= half
                  /\ (f.pc = "match" /\ f.w > 8 /\ 0 < f.bits /\ f.bits < f.w)
                        => LET lo == MinHighBits(f.w, f.bits)
                               hi == MaxHighBits(f.w, f.bits)
                           IN  /\ lo = (IF f.bits > half THEN f.bits - half
                                        ELSE 0)
                               /\ hi = (IF f.bits < half THEN f.bits ELSE half)
                               /\ lo <= hi
                               /\ \A h \in lo..hi : /\ h <= half
                                                     /\ h <= f.bits
                                                     /\ f.bits - h <= half
        /\ \A j \in 1..Len(rng_log) : /\ rng_log[j].lo <= rng_log[j].x
                                      /\ rng_log[j].x <= rng_log[j].hi

FeasibleSplitWitness ==
    /\ ValidRequest /\ AnyRng /\ width = 128 /\ bits = 127
    /\ Len(stack) = 4
    /\ stack[1].pc = "low" /\ stack[1].high_bits = 64
    /\ stack[2].pc = "low" /\ stack[3].pc = "low"
    /\ Top.w = 16 /\ Top.pc = "match" /\ Top.bits = 15

\* The entry the u8 sample of b bits returns for the index i of its draw.
ByteAt(b, i) ==
    IF b <= 4 THEN MAPPING[b][i + 1] ELSE 255 - MAPPING[8 - b][i + 1]

\* The indices at which the u8 sample of b bits finds the byte v.
IndicesOf(b, v) ==
    {i \in 0..(Len(MAPPING[IF b <= 4 THEN b ELSE 8 - b]) - 1) : ByteAt(b, i) = v}

\* C2: every value of weight bits is equally likely, that is, on every
\* execution that returns, the product of the sizes of the ranges drawn
\* from is the number of values of T with bits bits set.
Uniformity ==
    (Returned /\ AnyRng) => RangeProduct(rng_log) = Choose(width, bits)

\* C9: gen_bits::<u8>(k) for k in 1..=7 makes exactly one draw, over
\* [0, C(8,k)), the length of the table row it reads; the index is within
\* the row; and no other index of the row gives the byte returned.
UnbiasedByteDraw ==
    (Returned /\ width = 8 /\ bits \in 1..7) =>
        /\ Len(rng_log) = 1
        /\ rng_log[1].lo = 0
        /\ rng_log[1].hi + 1 = Choose(8, bits)
        /\ rng_log[1].hi + 1 = Len(MAPPING[IF bits <= 4 THEN bits ELSE 8 - bits])
        /\ rng_log[1].x \in 0..rng_log[1].hi
        /\ IndicesOf(bits, ret[1]) = {rng_log[1].x}

UnbiasedByteDrawWitness ==
    /\ Returned /\ AnyRng /\ width = 8 /\ bits = 6
    /\ rng_log = <<[lo |-> 0, hi |-> 27, x |-> 27]>>
    /\ ret = <<63>>

\* The steps a sample call of the impl for w takes at most, nested calls
\* included.
RECURSIVE StepsOf(_)
StepsOf(w) == IF w <= 8 THEN 3 ELSE 3 + 2 * StepsOf(w \div 2)

\* The steps the active calls have left at most.
RECURSIVE StepsLeft(_)
StepsLeft(st) ==
    IF Len(st) = 0 THEN 0
    ELSE LET f == Head(st)
         IN  (CASE f.pc = "match" ->
                       IF f.w = 8 /\ f.bits \notin 5..7 THEN 1
                       ELSE StepsOf(f.w)
                [] f.pc = "xor" -> 1
                [] f.pc = "high" -> 2 + StepsOf(f.w \div 2)
                [] f.pc = "low" -> 1)
             + StepsLeft(Tail(st))

Remaining == IF status = "running" THEN StepsLeft(stack) ELSE 0

\* Every step of a running call uses up some of the steps it has left.
Terminates == [][status = "running" => Remaining' < Remaining]_vars

\* C8 as stated: no more than 4 sample calls are nested below the one
\* gen_bits made.
DepthAtMostFour == ValidRequest => NestedCalls <= 4

\* The sample calls on the way from the impl for w down to the u8 impl, and
\* the call the u8 impl makes to itself.
RECURSIVE MaxNested(_)
MaxNested(w) == IF w <= 8 THEN 1 ELSE 1 + MaxNested(w \div 2)

\* C8, amended: a valid call returns (it never panics, while it runs it has
\* a step to take, and every step uses up some of the finitely many steps
\* it has left), and the sample calls nested below the one gen_bits made
\* are at most 5 (128 -> 64 -> 32 -> 16 -> 8 -> 8: the u8 impl calls itself
\* once for 5..=7), never more than one u8 call in another.
TerminationAndDepth ==
    /\ [](ValidRequest =>
            /\ NestedCalls <= MaxNested(width)
            /\ NestedCalls <= 5
            /\ Cardinality({i \in 1..Len(stack) : stack[i].w = 8}) <= 2
            /\ ~Panicked
            /\ (status = "running" /\ AnyRng) => ENABLED Next)
    /\ Terminates

TerminationAndDepthWitness ==
    /\ ValidRequest /\ AnyRng /\ width = 128 /\ NestedCalls = 5
    /\ stack[5].w = 8 /\ stack[5].pc = "xor" /\ Top.w = 8 /\ Top.bits = 1

\* A scripted rng is never asked for a range without the outcome of its
\* script, and the value returned is the one it steers to.  A call that
\* cannot panic returns (C8), so every target is returned.
ReachesTarget ==
    ~AnyRng => /\ ~Panicked
               /\ Returned => ret = target

\* The bits of v that are not set.
CountZeros(v) == Len(v) * 8 - CountOnes(v)

\* The outcomes of the draws that lead to the value v, in the order of the
\* draws: at a split the weight of the high half, then the draws of the
\* high half, then those of the low half; at a byte the index of the byte.
RECURSIVE DrawsOf(_)
DrawsOf(v) ==
    LET k == CountOnes(v)
        h == Len(v) \div 2
    IN  IF k = 0 \/ k = Len(v) * 8 THEN <<>>
        ELSE IF Len(v) = 1
        THEN LET s == IndicesOf(k, v[1])
             IN  IF s = {} THEN <<-1>> ELSE <<CHOOSE i \in s : TRUE>>
        ELSE <<CountOnes(SubSeq(v, 1, h))>>
             \o DrawsOf(SubSeq(v, 1, h))
             \o DrawsOf(SubSeq(v, h + 1, Len(v)))

Outcomes(log) == [j \in 1..Len(log) |-> log[j].x]

\* C5: gen_bits::<u8>(k) returns bytes of weight k only (so the sets for
\* different k are disjoint), C(8,k) of them (the C(8,k) indices of the
\* draw give different bytes), and every byte 0..255 is returned for the k
\* that is its weight (a rng scripted for it gets it).
ExhaustiveBaseCase ==
    width = 8 =>
        /\ ReachesTarget
        /\ Returned =>
              /\ Len(ret) = 1 /\ ret[1] \in 0..255
              /\ ByteCountOnes(ret[1]) = bits
              /\ bits \in 1..7 =>
                    /\ rng_log[Len(rng_log)].hi + 1 = Choose(8, bits)
                    /\ Cardinality({ByteAt(bits, i) :
                                      i \in 0..rng_log[Len(rng_log)].hi})
                         = Choose(8, bits)

ExhaustiveBaseCaseWitness ==
    Returned /\ width = 8 /\ bits = 5 /\ target = <<248>> /\ ret = <<248>>

\* C6: gen_bits::<u16>(15) returns values with exactly one zero bit, each
\* through draws whose ranges have sizes of product 16, and each of the 16
\* values with one zero bit is returned (a rng scripted for it gets it).
CompositionExample ==
    (width = 16 /\ bits = 15) =>
        /\ ReachesTarget
        /\ Returned => /\ Len(ret) = 2
                       /\ CountZeros(ret) = 1
                       /\ RangeProduct(rng_log) = 16

CompositionExampleWitness ==
    /\ Returned /\ width = 16 /\ bits = 15
    /\ target = <<255, 127>> /\ ret = <<255, 127>>
    /\ RangeProduct(rng_log) = 16

\* C10: gen_bits::<T>(k) for T wider than u8 returns values of weight k
\* only, the high half of weight h and the low half of weight k - h for
\* the h drawn first; the draws made are the only ones that lead to the
\* value; and every value of T of weight k is returned (a rng scripted for
\* it gets it).
FullSupport ==
    (width > 8 /\ bits <= width) =>
        /\ ReachesTarget
        /\ Returned =>
              /\ Len(ret) * 8 = width
              /\ CountOnes(ret) = bits
              /\ Outcomes(rng_log) = DrawsOf(ret)
              /\ bits \in 1..(width - 1) =>
                    /\ CountOnes(SubSeq(ret, 1, Len(ret) \div 2))
                         = rng_log[1].x
                    /\ CountOnes(SubSeq(ret, Len(ret) \div 2 + 1, Len(ret)))
                         = bits - rng_log[1].x

FullSupportWitness ==
    /\ Returned /\ width = 128 /\ bits = 1
    /\ target = <<0, 0, 0, 0, 0, 0, 0, 1, 0, 0, 0, 0, 0, 0, 0, 0>>
    /\ ret = target
    /\ rng_log[1] = [lo |-> 0, hi |-> 1, x |-> 1]

====
